---------------------------- MODULE Spec2Model ----------------------------
(***************************************************************************)
(* Lattice Quantum Monte Carlo sampler (src/lqmc/lqmc.py, src/mc_fast.py). *)
(*                                                                         *)
(* Numbers.  The program computes in float64.  Here every freshly built    *)
(* matrix (the B-products, M, det(M), inv(M), the acceptance ratio) is an  *)
(* exact rational <<n, d>>, d > 0, in lowest terms, so that "r < ratio"    *)
(* and equalities of ratios are decided exactly.  The Green's functions    *)
(* that the loops keep and add up from move to move (g_beta, g_tmp, g_up,  *)
(* the running totals) grow without bound as rationals; they are carried   *)
(* by their image in the prime field GF(P).  n/d |-> n * d^-1 mod P is a   *)
(* ring homomorphism, so equal reals have equal images and two different   *)
(* images prove two different reals.  A division by zero (inf/nan in       *)
(* numpy) is the absorbing value NaN.                                      *)
(*                                                                         *)
(* Instance.  Two sites; exp(dtau * H_kin) = [[3,2],[2,2]] (symmetric,     *)
(* positive definite, hence the exponential of a real symmetric H_kin);    *)
(* exp(lamb) = 2, i.e. cosh(lamb) = exp(U*dtau/2) = 5/4.                   *)
(***************************************************************************)
EXTENDS Integers, Sequences, FiniteSets, TLC

(* ------------------------------ bounds --------------------------------- *)
MaxTimeSteps == 2
MaxSlices == 3
MaxMoves == 8
MaxSites == 4

(* ----------------------------- evaluation ------------------------------ *)
\* Python evaluates the arguments of a call before the call.  Only({e : x \in {a}})
\* is the value of e with a computed first and bound to x.
Only(S) == CHOOSE x \in S : TRUE

(* --------------------------- exact rationals --------------------------- *)
Abs(x) == IF x < 0 THEN -x ELSE x

RECURSIVE GCD(_, _)
GCD(a, b) == IF b = 0 THEN a ELSE GCD(b, a % b)

Rat(n, d) ==
    LET g == GCD(Abs(n), Abs(d))
        s == IF d < 0 THEN -1 ELSE 1
    IN  <<(s * n) \div g, (s * d) \div g>>

R0 == <<0, 1>>
R1 == <<1, 1>>
RAdd(a, b) == Rat(a[1] * b[2] + b[1] * a[2], a[2] * b[2])
RSub(a, b) == Rat(a[1] * b[2] - b[1] * a[2], a[2] * b[2])
RMul(a, b) == Rat(a[1] * b[1], a[2] * b[2])
RDiv(a, b) == Rat(a[1] * b[2], a[2] * b[1])
RLess(a, b) == a[1] * b[2] < b[1] * a[2]

(* ------------------------- the field GF(P) ----------------------------- *)
P == 46337
NaN == -1

FAdd(a, b) == IF a = NaN \/ b = NaN THEN NaN ELSE (a + b) % P
FSub(a, b) == IF a = NaN \/ b = NaN THEN NaN ELSE (a - b + P) % P
FMul(a, b) == IF a = NaN \/ b = NaN THEN NaN ELSE (a * b) % P

\* 1 / b for 0 < b < P: P = (P \div b) * b + P % b, hence
\* 1 / b = -(P \div b) / (P % b)
RECURSIVE FInv(_)
FInv(b) == IF b = 1 THEN 1 ELSE ((P - P \div b) * FInv(P % b)) % P

\* the inverses of 1 .. P - 1, tabulated
FInvs == (1 :> 1) @@ [b \in 2 .. P - 1 |-> FInv(b)]

FDiv(a, b) ==
    IF a = NaN \/ b = NaN \/ b = 0 THEN NaN ELSE (a * FInvs[b]) % P

Img(r) == Only({FDiv(q[1] % P, q[2] % P) : q \in {r}})

(* ------------------------------ matrices ------------------------------- *)
\* An (N, N) array is a function Sites -> Sites -> number, N = n_sites = 2.
\* Arrays are built entry by entry (Vec, Mat), so that each entry is computed
\* once when the array is built.
n_sites == 2
Sites == 0 .. n_sites - 1

Vec(x0, x1) == (0 :> x0) @@ (1 :> x1)
Mat(x00, x01, x10, x11) == Vec(Vec(x00, x01), Vec(x10, x11))

\* np.dot on rationals
RDotSum(A, B, a, b) == RAdd(RMul(A[a][0], B[0][b]), RMul(A[a][1], B[1][b]))
dot(A, B) ==
    Only({Mat(RDotSum(X, Y, 0, 0), RDotSum(X, Y, 0, 1),
              RDotSum(X, Y, 1, 0), RDotSum(X, Y, 1, 1)) : X \in {A}, Y \in {B}})

eye == Mat(R1, R0, R0, R1)
MatAdd(A, B) ==
    Only({Mat(RAdd(X[0][0], Y[0][0]), RAdd(X[0][1], Y[0][1]),
              RAdd(X[1][0], Y[1][0]), RAdd(X[1][1], Y[1][1])) : X \in {A}, Y \in {B}})

\* np.linalg.det and np.linalg.inv
det(A) ==
    Only({RSub(RMul(X[0][0], X[1][1]), RMul(X[0][1], X[1][0])) : X \in {A}})
inv(A) ==
    Only({Mat(RDiv(X[1][1], d), RDiv(RSub(R0, X[0][1]), d),
              RDiv(RSub(R0, X[1][0]), d), RDiv(X[0][0], d)) :
          X \in {A}, d \in {det(A)}})

ImgMat(A) ==
    Only({Mat(Img(X[0][0]), Img(X[0][1]), Img(X[1][0]), Img(X[1][1])) : X \in {A}})

\* np.dot and + on images
FDotSum(A, B, a, b) == FAdd(FMul(A[a][0], B[0][b]), FMul(A[a][1], B[1][b]))
fdot(A, B) ==
    Only({Mat(FDotSum(X, Y, 0, 0), FDotSum(X, Y, 0, 1),
              FDotSum(X, Y, 1, 0), FDotSum(X, Y, 1, 1)) : X \in {A}, Y \in {B}})
FMatAdd(A, B) ==
    Only({Mat(FAdd(X[0][0], Y[0][0]), FAdd(X[0][1], Y[0][1]),
              FAdd(X[1][0], Y[1][0]), FAdd(X[1][1], Y[1][1])) : X \in {A}, Y \in {B}})
FZero == Mat(0, 0, 0, 0)

(* --------------------------- cached matrices --------------------------- *)
ExpLamb == 2
exp_k == Mat(Rat(3, 1), Rat(2, 1), Rat(2, 1), Rat(2, 1))
exp_k_inv == exp_k

\* np.exp(s * lamb * h) for a field value h in {-1, +1} and a sign s
ExpField(s, h) == IF s * h > 0 THEN Rat(ExpLamb, 1) ELSE Rat(1, ExpLamb)

\* LatticeQMC._exp_v: the diagonal matrix of slice l; inv defaults to True
exp_v(cfg, l, sigma, inverse) ==
    LET s == IF inverse THEN -1 * sigma ELSE sigma
    IN  Mat(ExpField(s, cfg[0][l]), R0, R0, ExpField(s, cfg[1][l]))

\* the loop "for l in reversed(range(lo, hi))" of _m and _m_cyclic,
\* entered with b_prod and the next slice l
RECURSIVE BProdDown(_, _, _, _, _)
BProdDown(cfg, sigma, b_prod, l, lo) ==
    IF l < lo THEN b_prod
    ELSE Only({BProdDown(cfg, sigma, next, l - 1, lo) :
               next \in {dot(b_prod, dot(exp_k, exp_v(cfg, l, sigma, TRUE)))}})

\* mutation: the loop entered at lmax, slice lmax multiplied in twice
m_from_lmax(cfg, L, sigma) ==
    LET lmax == L - 1
        b == dot(exp_v(cfg, lmax, sigma, TRUE), exp_k)
    IN  MatAdd(eye, BProdDown(cfg, sigma, b, lmax, 0))

\* LatticeQMC._m
m(cfg, L, sigma) ==
    LET lmax == L - 1
        b == dot(exp_v(cfg, lmax, sigma, TRUE), exp_k)
    IN  MatAdd(eye, BProdDown(cfg, sigma, b, lmax - 1, 0))

\* LatticeQMC._m_cyclic
m_cyclic(cfg, L, sigma, l) ==
    LET lmax == L
        b == dot(exp_v(cfg, l, sigma, TRUE), exp_k)
        first == BProdDown(cfg, sigma, b, l - 1, 0)
    IN  MatAdd(eye, BProdDown(cfg, sigma, first, lmax - 1, l + 1))

\* mc_fast.compute_m
RECURSIVE ComputeMDown(_, _, _, _)
ComputeMDown(cfg, sigma, b_prod, l) ==
    IF l < 1 THEN b_prod
    ELSE Only({ComputeMDown(cfg, sigma, next, l - 1) :
               next \in {dot(b_prod, dot(exp_k, exp_v(cfg, l, sigma, FALSE)))}})

compute_m(cfg, L, sigma) ==
    LET lmax == L - 1
        b == dot(exp_k, exp_v(cfg, lmax, sigma, FALSE))
    IN  MatAdd(eye, ComputeMDown(cfg, sigma, b, lmax - 1))

\* Configuration.update(i, l): negate entry (i, l)
update(cfg, i, l) == [cfg EXCEPT ![i][l] = -1 * cfg[i][l]]

(* --------------------- Green's functions in GF(P) ---------------------- *)
Spins == {1, -1}
Slices(L) == 0 .. L - 1

BySpin(up, dn) == (1 :> up) @@ (-1 :> dn)

\* LatticeQMC._gf_tau: g[0] = g_beta, g[l] = b_inv * g[l-1] * b for
\* l = 1 .. time_steps - 1 (GfTauFwd is the array g filled up to index l),
\* returned reversed (g[::-1])
RECURSIVE GfTauFwd(_, _, _, _)
GfTauFwd(cfg, sigma, g_beta, l) ==
    IF l = 0 THEN (0 :> g_beta)
    ELSE LET ev == exp_v(cfg, l, sigma, TRUE)
             ev_inv == exp_v(cfg, l, sigma, TRUE)
             b == ImgMat(dot(ev, exp_k))
             b_inv == ImgMat(dot(ev_inv, exp_k_inv))
         IN  Only({(l :> fdot(fdot(b_inv, g[l - 1]), b)) @@ g :
                   g \in {GfTauFwd(cfg, sigma, g_beta, l - 1)}})

gf_tau(cfg, L, sigma, g_beta) ==
    Only({[j \in Slices(L) |-> g[L - 1 - j]] :
          g \in {GfTauFwd(cfg, sigma, g_beta, L - 1)}})

\* np.exp(-/+ arg) - 1 with arg = 2 * lamb * config[i, l]: the factor of
\* spin sigma is exp(-sigma * arg) - 1
Delta(cfg, i, l, sigma) ==
    LET e == ExpField(-1 * sigma, cfg[i][l])
    IN  RSub(RMul(e, e), R1)

\* d_sigma = 1 + (1 - inv(m_sigma)[i, i]) * (exp(-/+ arg) - 1)
d_sigma(M, cfg, i, l, sigma) ==
    Only({RAdd(R1, RMul(RSub(R1, G[i][i]), Delta(cfg, i, l, sigma))) : G \in {inv(M)}})

\* the rank-1 update of measure_loop / measure_gf: c, b, G - outer(b, c)
sm_update(G, cfg, i, l, sigma) ==
    Only({
        LET c0 == FAdd(FMul(FSub(0, dl), X[i][0]), IF i = 0 THEN dl ELSE 0)
            c1 == FAdd(FMul(FSub(0, dl), X[i][1]), IF i = 1 THEN dl ELSE 0)
            c == Vec(c0, c1)
            bv == Vec(FDiv(X[0][i], FAdd(1, c[i])), FDiv(X[1][i], FAdd(1, c[i])))
        IN  Mat(FSub(X[0][0], FMul(bv[0], c[0])), FSub(X[0][1], FMul(bv[0], c[1])),
                FSub(X[1][0], FMul(bv[1], c[0])), FSub(X[1][1], FMul(bv[1], c[1]))) :
        X \in {G}, dl \in {Img(Delta(cfg, i, l, sigma))}})

(* ------------------------------ the loops ------------------------------ *)
\* mutation: the pairs zipped instead of the product
loop_generator_zip(L, k) == <<k % n_sites, k % L>>

\* loop_generator / itertools.product(range(n_sites), range(time_steps)):
\* the k-th pair of a sweep
loop_generator(L, k) == <<k \div L, k % L>>

\* mutation: slices visited upwards
det_order_up(L, k) == <<k % n_sites, k \div n_sites>>

\* measure_loop_det: for l in reversed(range(time_steps)): for i in range(n_sites)
det_order(L, k) == <<k % n_sites, (L - 1) - (k \div n_sites)>>

\* mutation: one sweep too many
in_range_incl(n, sweeps) == n <= sweeps

\* for sweep in range(sweeps): the loop runs while sweep < sweeps
in_range(n, sweeps) == n < sweeps

\* mutation: the flip made before the decision and never undone
fast_config_eager(acc, cfg, i, l) == update(cfg, i, l)

\* if acc: self.config.update(i, l) -- the fast loops flip after the decision
fast_config(acc, cfg, i, l) == IF acc THEN update(cfg, i, l) ELSE cfg

\* mutation: the comparison reversed
accept_reversed(r, ratio) == RLess(ratio, r)

\* acc = np.random.rand() < ratio
accept(r, ratio) == RLess(r, ratio)

\* np.random.rand(): the draws of the model, in [0, 1); every ratio below 1
\* of the instance is below 24/25, so both outcomes of such a move occur
RDraws == {Rat(0, 1), Rat(24, 25)}

Variants == {"det", "fast", "mc_fast"}
Fields(L) == [Sites -> [Slices(L) -> {-1, 1}]]
ZeroChain(L) == [j \in Slices(L) |-> FZero]
NoLast ==
    [phase |-> "none", loop |-> "none", i |-> 0, l |-> 0, r |-> R0, ratio |-> R0,
     acc |-> FALSE]

VARIABLES
    variant,        \* "det": det_mode = True; "fast": det_mode = False; "mc_fast": src/mc_fast.py
    time_steps, warm_sweeps, meas_sweeps,
    pc,             \* "start", "warmup", "measure", "done"
    sweep, k,       \* sweeps completed in the current loop; moves made in the current sweep
    config,         \* contents of the object self.config refers to
    old_config,     \* contents of the object old_config refers to
    alias,          \* TRUE when self.config and old_config are the same object
    old,            \* det mode: weight of the last accepted configuration
    g_slice,        \* measure_loop_det: g_up / g_dn, by spin and slice
    g_total,        \* measure_loop_det: g_total_up / g_total_dn
    g_beta,         \* measure_loop: g_beta_up / g_beta_dn; measure_gf: g_tmp_up / g_tmp_dn
    g_tmp,          \* measure_loop: g_tmp_up / g_tmp_dn (the per-slice chain)
    gf,             \* measure_loop, measure_gf: gf_up / gf_dn
    number,
    result,         \* the returned array, by spin; <<>> before the return
    visits,         \* history: the (i, l) pairs tried so far in the current sweep
    moves,          \* history: trial moves made, by phase
    last,           \* history: the last trial move
    probe           \* result of the last pure-function application (SpecPure)

vars == <<variant, time_steps, warm_sweeps, meas_sweeps, pc, sweep, k, config,
          old_config, alias, old, g_slice, g_total, g_beta, g_tmp, gf, number,
          result, visits, moves, last, probe>>

params == <<variant, time_steps, warm_sweeps, meas_sweeps>>
greens == <<g_slice, g_total, g_beta, g_tmp, gf, number>>

NoProbe == [kind |-> "none"]

\* LatticeQMC.__init__ (and mc_fast.measure up to the warmup call)
Init ==
    /\ variant \in Variants
    /\ time_steps \in 1 .. MaxTimeSteps
    /\ warm_sweeps \in 0 .. MaxMoves
    /\ meas_sweeps \in 0 .. MaxMoves
    /\ (warm_sweeps + meas_sweeps) * n_sites * time_steps <= MaxMoves
    /\ config \in Fields(time_steps)
    /\ old_config = config
    /\ alias = FALSE
    /\ pc = "start"
    /\ sweep = 0 /\ k = 0
    /\ old = R0
    /\ g_slice = [s \in Spins |-> ZeroChain(time_steps)]
    /\ g_total = [s \in Spins |-> ZeroChain(time_steps)]
    /\ g_beta = [s \in Spins |-> FZero]
    /\ g_tmp = [s \in Spins |-> ZeroChain(time_steps)]
    /\ gf = [s \in Spins |-> 0]
    /\ number = 0
    /\ result = <<>>
    /\ visits = <<>>
    /\ moves = [warmup |-> 0, measure |-> 0]
    /\ last = NoLast
    /\ probe = NoProbe

\* _compute_m and the weight det(m_up) * det(m_dn)
weight(cfg, L) == RMul(det(m(cfg, L, 1)), det(m(cfg, L, -1)))
weight_cyclic(cfg, L, l) ==
    RMul(det(m_cyclic(cfg, L, 1, l)), det(m_cyclic(cfg, L, -1, l)))

\* the fast ratio d_up * d_dn of warmup_loop / measure_loop
ratio_fast(cfg, L, i, l) ==
    RMul(d_sigma(m(cfg, L, 1), cfg, i, l, 1), d_sigma(m(cfg, L, -1), cfg, i, l, -1))

\* the same in mc_fast.warmup / measure_gf, on compute_m
ratio_mc_fast(cfg, L, i, l) ==
    RMul(d_sigma(compute_m(cfg, L, 1), cfg, i, l, 1),
         d_sigma(compute_m(cfg, L, -1), cfg, i, l, -1))

\* the generator's step to the next (sweep, i, l)
Advance ==
    /\ k' = IF k + 1 = n_sites * time_steps THEN 0 ELSE k + 1
    /\ sweep' = IF k + 1 = n_sites * time_steps THEN sweep + 1 ELSE sweep

Record(phase, loop, i, l, r, ratio, acc) ==
    /\ visits' = IF k = 0 THEN <<<<i, l>>>> ELSE Append(visits, <<i, l>>)
    /\ moves' = [moves EXCEPT ![phase] = @ + 1]
    /\ last' = [phase |-> phase, loop |-> loop, i |-> i, l |-> l, r |-> r,
                ratio |-> ratio, acc |-> acc]

\* run_lqmc: entry, and the statements of the warmup loop before its first move
run_lqmc ==
    /\ pc = "start"
    /\ pc' = "warmup"
    /\ IF variant = "det"
       THEN /\ old' = weight(config, time_steps)
            /\ old_config' = config
            /\ alias' = FALSE
       ELSE UNCHANGED <<old, old_config, alias>>
    /\ UNCHANGED <<params, sweep, k, config, greens, result, visits, moves, last, probe>>

\* one iteration of warmup_loop_det
warmup_loop_det ==
    /\ pc = "warmup" /\ variant = "det" /\ in_range(sweep, warm_sweeps)
    /\ \E il \in {loop_generator(time_steps, k)} :
       \E flipped \in {update(config, il[1], il[2])} :
       \E new \in {weight(flipped, time_steps)} :
       \E ratio \in {RDiv(new, old)} :
       \E r \in RDraws :
       \E acc \in {accept(r, ratio)} :
       \E held \in {IF alias THEN flipped ELSE old_config} :
          /\ IF acc
             THEN /\ old' = new
                  /\ config' = flipped
                  /\ old_config' = flipped
                  /\ alias' = FALSE
             ELSE /\ old' = old
                  /\ config' = held
                  /\ old_config' = held
                  /\ alias' = TRUE
          /\ Record("warmup", "warmup_loop_det", il[1], il[2], r, ratio, acc)
    /\ Advance
    /\ UNCHANGED <<params, pc, greens, result, probe>>

\* one iteration of warmup_loop
warmup_loop ==
    /\ pc = "warmup" /\ variant = "fast" /\ in_range(sweep, warm_sweeps)
    /\ \E il \in {loop_generator(time_steps, k)} :
       \E ratio \in {ratio_fast(config, time_steps, il[1], il[2])} :
       \E r \in RDraws :
       \E acc \in {accept(r, ratio)} :
          /\ config' = fast_config(acc, config, il[1], il[2])
          /\ Record("warmup", "warmup_loop", il[1], il[2], r, ratio, acc)
    /\ Advance
    /\ UNCHANGED <<params, pc, old_config, alias, old, greens, result, probe>>

\* one iteration of mc_fast.warmup
warmup ==
    /\ pc = "warmup" /\ variant = "mc_fast" /\ in_range(sweep, warm_sweeps)
    /\ \E il \in {loop_generator(time_steps, k)} :
       \E ratio \in {ratio_mc_fast(config, time_steps, il[1], il[2])} :
       \E r \in RDraws :
       \E acc \in {accept(r, ratio)} :
          /\ config' = fast_config(acc, config, il[1], il[2])
          /\ Record("warmup", "warmup", il[1], il[2], r, ratio, acc)
    /\ Advance
    /\ UNCHANGED <<params, pc, old_config, alias, old, greens, result, probe>>

\* elementwise + on per-slice chains
ChainAdd(A, B) == [j \in DOMAIN A |-> FMatAdd(A[j], B[j])]

\* the inverse of both M matrices: np.linalg.inv(m_up), np.linalg.inv(m_dn)
inv_m(cfg, L) == BySpin(ImgMat(inv(m(cfg, L, 1))), ImgMat(inv(m(cfg, L, -1))))
inv_m_cyclic(cfg, L, l) ==
    BySpin(ImgMat(inv(m_cyclic(cfg, L, 1, l))), ImgMat(inv(m_cyclic(cfg, L, -1, l))))
inv_compute_m(cfg, L) ==
    BySpin(ImgMat(inv(compute_m(cfg, L, 1))), ImgMat(inv(compute_m(cfg, L, -1))))

\* _compute_gf_tau
compute_gf_tau(cfg, L, gb) ==
    BySpin(gf_tau(cfg, L, 1, gb[1]), gf_tau(cfg, L, -1, gb[-1]))

\* the rank-1 update of both spins
sm_update_both(gb, cfg, i, l) ==
    BySpin(sm_update(gb[1], cfg, i, l, 1), sm_update(gb[-1], cfg, i, l, -1))

\* if acc: g_beta_up, g_beta_dn = ... (the cached G changes on acceptance only)
fast_g_beta(acc, gb, cfg, i, l) == IF acc THEN sm_update_both(gb, cfg, i, l) ELSE gb

\* the statements of the measurement loop before its first move
begin_measure ==
    /\ pc = "warmup" /\ ~in_range(sweep, warm_sweeps)
    /\ pc' = "measure"
    /\ sweep' = 0 /\ k' = 0
    /\ number' = 0
    /\ CASE variant = "det" ->
              /\ old' = weight(config, time_steps)
              /\ old_config' = config
              /\ alias' = FALSE
              /\ g_total' = [s \in Spins |-> ZeroChain(time_steps)]
              /\ \E g \in {inv_m(config, time_steps)} :
                   g_slice' = [s \in Spins |->
                      [ZeroChain(time_steps) EXCEPT ![time_steps - 1] = g[s]]]
              /\ UNCHANGED <<g_beta, g_tmp, gf>>
         [] variant = "fast" ->
              /\ gf' = [s \in Spins |-> 0]
              /\ \E g \in {inv_m(config, time_steps)} :
                   /\ g_beta' = g
                   /\ g_tmp' = compute_gf_tau(config, time_steps, g)
              /\ UNCHANGED <<old, old_config, alias, g_total, g_slice>>
         [] variant = "mc_fast" ->
              /\ gf' = [s \in Spins |-> 0]
              /\ g_beta' = inv_compute_m(config, time_steps)
              /\ UNCHANGED <<old, old_config, alias, g_total, g_slice, g_tmp>>
    /\ UNCHANGED <<params, config, result, visits, moves, last, probe>>

\* one iteration of measure_loop_det
measure_loop_det ==
    /\ pc = "measure" /\ variant = "det" /\ in_range(sweep, meas_sweeps)
    /\ \E il \in {det_order(time_steps, k)} :
       \E flipped \in {update(config, il[1], il[2])} :
       \E new \in {weight_cyclic(flipped, time_steps, il[2])} :
       \E ratio \in {RDiv(new, old)} :
       \E r \in RDraws :
       \E acc \in {accept(r, ratio)} :
       \E g_l \in {IF acc THEN inv_m_cyclic(flipped, time_steps, il[2])
                          ELSE [s \in Spins |-> g_slice[s][il[2]]]} :
          /\ IF acc
             THEN /\ old' = new
                  /\ config' = flipped
                  /\ old_config' = flipped
             ELSE /\ old' = old
                  /\ config' = update(flipped, il[1], il[2])
                  /\ old_config' = old_config
          /\ g_slice' = [s \in Spins |-> [g_slice[s] EXCEPT ![il[2]] = g_l[s]]]
          /\ g_total' = [s \in Spins |->
                            [g_total[s] EXCEPT ![il[2]] = FMatAdd(@, g_l[s])]]
          /\ Record("measure", "measure_loop_det", il[1], il[2], r, ratio, acc)
    /\ number' = number + 1
    /\ Advance
    /\ UNCHANGED <<params, pc, alias, g_beta, g_tmp, gf, result, probe>>

\* one iteration of measure_loop
measure_loop ==
    /\ pc = "measure" /\ variant = "fast" /\ in_range(sweep, meas_sweeps)
    /\ \E il \in {loop_generator(time_steps, k)} :
       \E ratio \in {ratio_fast(config, time_steps, il[1], il[2])} :
       \E r \in RDraws :
       \E acc \in {accept(r, ratio)} :
       \E gb \in {fast_g_beta(acc, g_beta, config, il[1], il[2])} :
       \E gt \in {IF acc THEN compute_gf_tau(config, time_steps, gb) ELSE g_tmp} :
          /\ g_beta' = gb
          /\ g_tmp' = gt
          /\ config' = fast_config(acc, config, il[1], il[2])
          /\ gf' = IF number = 0 THEN gt
                   ELSE [s \in Spins |-> ChainAdd(gf[s], gt[s])]
          /\ Record("measure", "measure_loop", il[1], il[2], r, ratio, acc)
    /\ number' = number + 1
    /\ Advance
    /\ UNCHANGED <<params, pc, old_config, alias, old, g_slice, g_total, result, probe>>

\* one iteration of mc_fast.measure_gf
measure_gf ==
    /\ pc = "measure" /\ variant = "mc_fast" /\ in_range(sweep, meas_sweeps)
    /\ \E il \in {loop_generator(time_steps, k)} :
       \E ratio \in {ratio_mc_fast(config, time_steps, il[1], il[2])} :
       \E r \in RDraws :
       \E acc \in {accept(r, ratio)} :
       \E gb \in {fast_g_beta(acc, g_beta, config, il[1], il[2])} :
          /\ g_beta' = gb
          /\ config' = fast_config(acc, config, il[1], il[2])
          /\ gf' = IF number = 0 THEN gb
                   ELSE [s \in Spins |-> FMatAdd(gf[s], gb[s])]
          /\ Record("measure", "measure_gf", il[1], il[2], r, ratio, acc)
    /\ number' = number + 1
    /\ Advance
    /\ UNCHANGED <<params, pc, old_config, alias, old, g_slice, g_total, g_tmp, result, probe>>

\* mutation: the factor time_steps dropped
normalize_det_plain(x, num, L) == FDiv(x, Img(Rat(num, 1)))

\* the normalisation of measure_loop_det: g_total / number * self.time_steps
normalize_det(x, num, L) == FMul(FDiv(x, Img(Rat(num, 1))), Img(Rat(L, 1)))

\* the normalisation of measure_loop and measure_gf: np.array([gf_up, gf_dn]) / number
normalize(x, num) == FDiv(x, Img(Rat(num, 1)))

\* the return of the measurement loop and of run_lqmc
return_gf ==
    /\ pc = "measure" /\ ~in_range(sweep, meas_sweeps)
    /\ pc' = "done"
    /\ result' =
         CASE variant = "det" ->
                [s \in Spins |-> [j \in Slices(time_steps) |->
                    [a \in Sites |-> [b \in Sites |->
                        normalize_det(g_total[s][j][a][b], number, time_steps)]]]]
           [] variant = "fast" ->
                IF number = 0 THEN [s \in Spins |-> normalize(0, number)]
                ELSE [s \in Spins |-> [j \in Slices(time_steps) |->
                        [a \in Sites |-> [b \in Sites |->
                            normalize(gf[s][j][a][b], number)]]]]
           [] variant = "mc_fast" ->
                IF number = 0 THEN [s \in Spins |-> normalize(0, number)]
                ELSE [s \in Spins |-> [a \in Sites |-> [b \in Sites |->
                        normalize(gf[s][a][b], number)]]]
    /\ UNCHANGED <<params, sweep, k, config, old_config, alias, old, greens,
                   visits, moves, last, probe>>

(* ------------- the matrix functions applied to any field --------------- *)
\* Each function is applied once to each input: probe holds the result of the
\* one application made from the initial state.
\* the slow ratio of warmup_loop_det: new / old, M rebuilt by _m after the flip
ratio_det(cfg, L, i, l) == RDiv(weight(update(cfg, i, l), L), weight(cfg, L))

InitPure ==
    /\ variant = "fast"
    /\ time_steps \in 1 .. MaxSlices
    /\ warm_sweeps = 0 /\ meas_sweeps = 0
    /\ config \in Fields(time_steps)
    /\ old_config = config
    /\ alias = FALSE
    /\ pc = "pure"
    /\ sweep = 0 /\ k = 0
    /\ old = R0
    /\ g_slice = [s \in Spins |-> ZeroChain(time_steps)]
    /\ g_total = [s \in Spins |-> ZeroChain(time_steps)]
    /\ g_beta = [s \in Spins |-> FZero]
    /\ g_tmp = [s \in Spins |-> ZeroChain(time_steps)]
    /\ gf = [s \in Spins |-> 0]
    /\ number = 0
    /\ result = <<>>
    /\ visits = <<>>
    /\ moves = [warmup |-> 0, measure |-> 0]
    /\ last = NoLast
    /\ probe = NoProbe

\* the fast and the slow ratio of one proposed flip at (i, l)
apply_ratio ==
    /\ pc = "pure" /\ probe = NoProbe
    /\ \E i \in Sites, l \in Slices(time_steps) :
         probe' = [kind |-> "ratio", i |-> i, l |-> l,
                   fast |-> ratio_fast(config, time_steps, i, l),
                   slow |-> ratio_det(config, time_steps, i, l)]
    /\ UNCHANGED <<params, pc, sweep, k, config, old_config, alias, old, greens,
                   result, visits, moves, last>>

\* det(_m(sigma)) and det(_m_cyclic(sigma, l))
apply_cyclic ==
    /\ pc = "pure" /\ probe = NoProbe
    /\ \E sigma \in Spins, l \in Slices(time_steps) :
         probe' = [kind |-> "cyclic", sigma |-> sigma, l |-> l,
                   direct |-> det(m(config, time_steps, sigma)),
                   cyclic |-> det(m_cyclic(config, time_steps, sigma, l))]
    /\ UNCHANGED <<params, pc, sweep, k, config, old_config, alias, old, greens,
                   result, visits, moves, last>>

\* _gf_tau(g_beta, sigma) started from g_beta = inv(_m(sigma))
apply_gf_tau ==
    /\ pc = "pure" /\ probe = NoProbe
    /\ \E sigma \in Spins :
       \E g \in {ImgMat(inv(m(config, time_steps, sigma)))} :
         probe' = [kind |-> "gf_tau", sigma |-> sigma,
                   chain |-> gf_tau(config, time_steps, sigma, g)]
    /\ UNCHANGED <<params, pc, sweep, k, config, old_config, alias, old, greens,
                   result, visits, moves, last>>

\* Hamiltonian.buildGraph(L): the edge and site lists of the chain, and the
\* exception raised on the way, "none" when the call returns
buildGraph(L) ==
    LET chain == [j \in 1 .. L - 1 |-> <<j - 1, j>>]
        edges == Append(chain, <<L - 1, 0>>)
        sites == Append([j \in 1 .. L - 1 |-> j - 1], L - 1)
    IN  \* print(edges[2]): the third edge
        IF Len(edges) < 3 THEN [raised |-> "IndexError", edges |-> <<>>, sites |-> <<>>]
        ELSE [raised |-> "none", edges |-> edges, sites |-> sites]

\* Hamiltonian.__init__(L, U, t, mu): buildGraph, then buildK on its graph
apply_Hamiltonian ==
    /\ pc = "pure" /\ probe = NoProbe
    /\ \E L \in -1 .. MaxSites :
         probe' = [kind |-> "Hamiltonian", L |-> L, graph |-> buildGraph(L)]
    /\ UNCHANGED <<params, pc, sweep, k, config, old_config, alias, old, greens,
                   result, visits, moves, last>>

\* the two direct constructions of M: _m(sigma) and mc_fast.compute_m(.., sigma)
apply_m ==
    /\ pc = "pure" /\ probe = NoProbe
    /\ \E sigma \in Spins :
         probe' = [kind |-> "m", sigma |-> sigma,
                   m |-> m(config, time_steps, sigma),
                   compute_m |-> compute_m(config, time_steps, sigma)]
    /\ UNCHANGED <<params, pc, sweep, k, config, old_config, alias, old, greens,
                   result, visits, moves, last>>

NextPure ==
    \/ apply_m
    \/ apply_Hamiltonian
    \/ apply_ratio
    \/ apply_cyclic
    \/ apply_gf_tau

Next ==
    \/ run_lqmc
    \/ warmup_loop_det
    \/ warmup_loop
    \/ warmup
    \/ begin_measure
    \/ measure_loop_det
    \/ measure_loop
    \/ measure_gf
    \/ return_gf

Spec == Init /\ [][Next]_vars

SpecPure == InitPure /\ [][NextPure]_vars

(* ------------------------------- claims -------------------------------- *)
PerSweep == n_sites * time_steps
AllPairs == Sites \X Slices(time_steps)
Visited == {visits[a] : a \in 1 .. Len(visits)}
Moved == moves' # moves

\* C1: in every sweep of every loop each pair (i, l), 0 <= i < N and
\* 0 <= l < L_tau, is tried exactly once whatever the earlier outcomes: the
\* pairs tried in the current sweep are distinct and in range, the n-th move of
\* a phase is move n mod (N * L_tau) of its sweep, and a finished sweep has
\* tried every pair.
C1_EachPairOncePerSweep ==
    /\ Cardinality(Visited) = Len(visits)
    /\ Visited \subseteq AllPairs
    /\ pc = "warmup" => moves.warmup = sweep * PerSweep + k
    /\ pc = "measure" => moves.measure = sweep * PerSweep + k
    /\ k # 0 => Len(visits) = k
    /\ (k = 0 /\ moves.warmup + moves.measure > 0) => Visited = AllPairs

C1_Witness ==
    /\ pc = "done" /\ time_steps = 2 /\ warm_sweeps = 1 /\ meas_sweeps = 1
    /\ Visited = AllPairs /\ ~last.acc

LoopsOf(v) ==
    CASE v = "det" -> {"warmup_loop_det", "measure_loop_det"}
      [] v = "fast" -> {"warmup_loop", "measure_loop"}
      [] v = "mc_fast" -> {"warmup", "measure_gf"}

\* the guards of the loop iterations and of the two hand-overs
CanStep ==
    \/ pc = "start"
    \/ pc = "warmup" /\ in_range(sweep, warm_sweeps) /\ variant \in Variants
    \/ pc = "warmup" /\ ~in_range(sweep, warm_sweeps)
    \/ pc = "measure" /\ in_range(sweep, meas_sweeps) /\ variant \in Variants
    \/ pc = "measure" /\ ~in_range(sweep, meas_sweeps)

\* steps still to take: the moves left, plus the call, the hand-over, the return
StepsLeft ==
    LET left == (warm_sweeps + meas_sweeps) * PerSweep
                    - moves.warmup - moves.measure
    IN  CASE pc = "start" -> left + 3
          [] pc = "warmup" -> left + 2
          [] pc = "measure" -> left + 1
          [] OTHER -> 0

RunPhases ==
    /\ pc # "done" => CanStep
    /\ StepsLeft >= 0
    /\ pc = "start" => moves.warmup = 0 /\ moves.measure = 0
    /\ pc = "warmup" => moves.measure = 0 /\ moves.warmup <= warm_sweeps * PerSweep
    /\ pc \in {"measure", "done"} => moves.warmup = warm_sweeps * PerSweep
    /\ pc = "measure" => moves.measure <= meas_sweeps * PerSweep /\ DOMAIN result = {}
    /\ pc = "done" =>
          /\ moves.measure = meas_sweeps * PerSweep
          /\ moves.warmup + moves.measure = (warm_sweeps + meas_sweeps) * PerSweep
          /\ DOMAIN result = Spins
    /\ last.phase # "none" => last.loop \in LoopsOf(variant)
    /\ last.phase = "measure" => pc \in {"measure", "done"}

\* C2: a run goes warmup -> measurement -> done: exactly warm_sweeps warmup
\* sweeps, then exactly meas_sweeps measurement sweeps of the same variant,
\* then the return of a result; no measurement move precedes the last warmup
\* move, and for every sequence of outcomes the run ends, after
\* (warm_sweeps + meas_sweeps) * N * L_tau trial moves.
C2_RunPhases == []RunPhases /\ [][StepsLeft' = StepsLeft - 1]_vars

C2_Witness ==
    /\ pc = "done" /\ variant = "det" /\ time_steps = 2
    /\ warm_sweeps = 1 /\ meas_sweeps = 1 /\ moves.measure = 4

\* C3 (as claimed): in the slow path a rejected move leaves the field
\* configuration as it was before the trial flip, in warmup_loop_det and in
\* measure_loop_det, also after consecutive rejections.
C3_RejectRestores ==
    [][(Moved /\ variant = "det" /\ ~last'.acc) => config' = config]_vars

Ordered(seq, before(_, _)) ==
    \A a, b \in 1 .. Len(seq) : a < b => before(seq[a], seq[b])
SliceDownSiteUp(p, q) == p[2] > q[2] \/ (p[2] = q[2] /\ p[1] < q[1])
SiteUpSliceUp(p, q) == p[1] < q[1] \/ (p[1] = q[1] /\ p[2] < q[2])

\* C4 (as claimed): in the measurement sweeps of both variants the moves go
\* slice by slice from slice L_tau-1 down to slice 0, sites in increasing order
\* within a slice.
C4_SliceDownBoth ==
    last.phase = "measure" => Ordered(visits, SliceDownSiteUp)

\* C4 (amended): the slow measurement sweep (measure_loop_det) goes slice by
\* slice from L_tau-1 down to 0 with the sites in increasing order within a
\* slice; the fast measurement sweeps (measure_loop, measure_gf) go site by
\* site in increasing order with the slices in increasing order 0..L_tau-1
\* within a site.
C4_MeasureOrder ==
    last.phase = "measure" =>
        IF variant = "det" THEN Ordered(visits, SliceDownSiteUp)
                           ELSE Ordered(visits, SiteUpSliceUp)

C4_Witness ==
    /\ pc = "done" /\ variant = "fast" /\ time_steps = 2
    /\ last.phase = "measure" /\ Len(visits) = 4

C6_FastFrame ==
    [][(Moved /\ variant # "det") =>
          IF last'.acc
          THEN \A a \in Sites, b \in Slices(time_steps) :
                  config'[a][b] = IF a = last'.i /\ b = last'.l
                                  THEN -1 * config[a][b] ELSE config[a][b]
          ELSE config' = config /\ g_beta' = g_beta /\ g_tmp' = g_tmp]_vars

C6_Witness ==
    /\ variant = "fast" /\ last.phase = "measure" /\ ~last.acc /\ number > 1

MeasMoves == meas_sweeps * PerSweep
Scaled(A, den) ==
    [a \in Sites |-> [b \in Sites |-> FDiv(A[a][b], Img(Rat(den, 1)))]]
ScaledChain(C, den) == [j \in DOMAIN C |-> Scaled(C[j], den)]

\* a measurement move adds one contribution, whatever the decision: the slow
\* loop the Green's function of the visited slice, measure_loop the cached
\* chain, measure_gf the cached equal-time function
AddsOne ==
    (Moved /\ last'.phase = "measure") =>
        /\ number' = number + 1
        /\ CASE variant = "det" ->
                  g_total' = [s \in Spins |-> [g_total[s] EXCEPT ![last'.l] =
                                  FMatAdd(@, g_slice'[s][last'.l])]]
             [] variant = "fast" ->
                  gf' = IF number = 0 THEN g_tmp'
                        ELSE [s \in Spins |-> ChainAdd(gf[s], g_tmp'[s])]
             [] variant = "mc_fast" ->
                  gf' = IF number = 0 THEN g_beta'
                        ELSE [s \in Spins |-> FMatAdd(gf[s], g_beta'[s])]

Returned == pc = "done" /\ meas_sweeps > 0

\* C7 (as claimed): in all three measurement loops the returned Green's
\* function is the running sum divided by meas_sweeps * N * L_tau.
C7_SumOverIterations ==
    Returned =>
        result = CASE variant = "det" ->
                        [s \in Spins |-> ScaledChain(g_total[s], MeasMoves)]
                   [] variant = "fast" ->
                        [s \in Spins |-> ScaledChain(gf[s], MeasMoves)]
                   [] variant = "mc_fast" ->
                        [s \in Spins |-> Scaled(gf[s], MeasMoves)]

ReturnedSum ==
    /\ pc \in {"measure", "done"} => number = moves.measure
    /\ Returned =>
        result = CASE variant = "det" ->
                        [s \in Spins |->
                            ScaledChain(g_total[s], meas_sweeps * n_sites)]
                   [] variant = "fast" ->
                        [s \in Spins |-> ScaledChain(gf[s], MeasMoves)]
                   [] variant = "mc_fast" ->
                        [s \in Spins |-> Scaled(gf[s], MeasMoves)]

\* C7 (amended): every measurement move adds one contribution regardless of
\* acceptance and counts once; measure_loop and measure_gf return the running
\* sum divided by meas_sweeps * N * L_tau; measure_loop_det returns, for each
\* slice, the sum of that slice divided by meas_sweeps * N, the number of
\* moves made at that slice.
C7_SumOverSliceVisits == []ReturnedSum /\ [][AddsOne]_vars

C7_Witness ==
    /\ Returned /\ variant = "det" /\ time_steps = 2 /\ ~last.acc
    /\ \A s \in Spins, j \in Slices(time_steps) :
          result[s][j][0][0] \notin {NaN, 0}

\* C8 (as claimed): for every field and every proposed flip (i, l) the fast
\* ratio d_up * d_dn, G from the inverse of the matrix of _m, equals the slow
\* ratio of the determinants rebuilt after the flip.
C8_FastRatioIsDetRatio ==
    probe.kind = "ratio" => probe.fast = probe.slow

HasNaN(G) == \E s \in Spins, a, b \in Sites : G[s][a][b] = NaN

\* C9 (as claimed): after an accepted flip in the fast measurement loop the
\* rank-1 updated Green's function equals, for both spins, the inverse of the
\* M matrix rebuilt from the flipped field.
C9_UpdateIsInverse ==
    (last.phase = "measure" /\ last.acc /\ ~HasNaN(g_beta)) =>
        /\ variant = "fast" => g_beta = inv_m(config, time_steps)
        /\ variant = "mc_fast" => g_beta = inv_compute_m(config, time_steps)

\* C10 (as claimed): for every field, spin and slice l the determinant of
\* _m_cyclic(sigma, l) equals the determinant of _m(sigma).
C10_CyclicDetEqual ==
    probe.kind = "cyclic" => probe.direct = probe.cyclic

\* B_sigma(l) of slice l as _gf_tau builds it, and B^-1 . G . B with the true
\* inverse of B_sigma(l)
BSlice(cfg, l, sigma) == dot(exp_v(cfg, l, sigma, TRUE), exp_k)
WrapDown(cfg, l, sigma, G) ==
    fdot(fdot(ImgMat(inv(BSlice(cfg, l, sigma))), G), ImgMat(BSlice(cfg, l, sigma)))

\* C11 (as claimed): in the chain returned by _gf_tau, started from G at the
\* last slice, the entry of slice l-1 is B_sigma(l)^-1 . G(l) . B_sigma(l) for
\* every l in 1..L_tau-1, B_sigma(l) built from field column l and the left
\* factor its true inverse.
C11_WrapWithInverse ==
    probe.kind = "gf_tau" =>
        \A l \in 1 .. time_steps - 1 :
            probe.chain[l - 1] = WrapDown(config, l, probe.sigma, probe.chain[l])

NoNaN(A) == \A a, b \in Sites : A[a][b] # NaN

\* C12: with L_tau = 1 a run with at least one measurement sweep completes
\* and returns numbers (no singular matrix, no division by zero): the product
\* in M is the single factor of slice 0, the chain of the wrapping recursion
\* is the equal-time Green's function itself (zero steps), and the result
\* holds exactly one slice per spin.
C12_SingleSlice ==
    time_steps = 1 =>
        /\ \A s \in Spins :
              /\ m(config, 1, s) = MatAdd(eye, dot(exp_v(config, 0, s, TRUE), exp_k))
              /\ compute_m(config, 1, s) =
                    MatAdd(eye, dot(exp_k, exp_v(config, 0, s, FALSE)))
        /\ (variant = "fast" /\ pc \in {"measure", "done"}) =>
              \A s \in Spins : DOMAIN g_tmp[s] = {0} /\ g_tmp[s][0] = g_beta[s]
        /\ Returned =>
              /\ DOMAIN result = Spins
              /\ \A s \in Spins :
                    IF variant = "mc_fast" THEN NoNaN(result[s])
                    ELSE DOMAIN result[s] = {0} /\ NoNaN(result[s][0])

C12_Witness ==
    /\ Returned /\ time_steps = 1 /\ variant = "fast" /\ last.acc
    /\ moves.warmup = 2 /\ moves.measure = 4

\* C13 (as claimed): Hamiltonian(L, U, t, mu) raises no error for every
\* L >= 1, L = 1 and L = 2 included, and builds the periodic chain of L sites
\* and L edges; it fails for L <= 0 only.
C13_BuildsForPositiveL ==
    probe.kind = "Hamiltonian" =>
        IF probe.L >= 1
        THEN /\ probe.graph.raised = "none"
             /\ Len(probe.graph.edges) = probe.L
             /\ Len(probe.graph.sites) = probe.L
        ELSE probe.graph.raised # "none"

\* the product B(l) . B(l-1) ... B(0) with B(l) = exp(sigma*lamb*V(l)) . exp(dtau*H_kin)
RECURSIVE SliceProduct(_, _, _)
SliceProduct(cfg, sigma, l) ==
    LET B == dot(exp_v(cfg, l, sigma, FALSE), exp_k)
    IN  IF l = 0 THEN B ELSE dot(B, SliceProduct(cfg, sigma, l - 1))

\* C14 (as claimed): _m and compute_m return I plus the product of the factors
\* of all slices, each once, in the order L_tau-1, ..., 0, every factor of the
\* form B_sigma(l) = exp(sigma*lamb*V(l)) . exp(dtau*H_kin).
C14_ProductOfAllSlices ==
    probe.kind = "m" =>
        /\ probe.m = MatAdd(eye, SliceProduct(config, probe.sigma, time_steps - 1))
        /\ probe.compute_m =
              MatAdd(eye, SliceProduct(config, probe.sigma, time_steps - 1))

\* C15 (as claimed): in the fast measurement loop the per-slice chain that is
\* kept and accumulated is the one the wrapping recursion gives for the
\* current equal-time Green's function and the current field, the accepted
\* flip applied; no stale chain is accumulated.
C15_ChainIsCurrent ==
    (variant = "fast" /\ pc \in {"measure", "done"} /\ ~HasNaN(g_beta)) =>
        g_tmp = compute_gf_tau(config, time_steps, g_beta)

\* C16 (as claimed): in measure_loop_det the matrix added to the running total
\* of slice l is, for both spins, the inverse of the cyclic M matrix of slice l
\* for the field that is current at the addition; never the zero placeholder,
\* never a matrix of an earlier field.
C16_AddsCurrentInverse ==
    (variant = "det" /\ last.phase = "measure") =>
        \A s \in Spins :
            g_slice[s][last.l] = inv_m_cyclic(config, time_steps, last.l)[s]
=============================================================================
